---- MODULE Spec2Model ----
(***************************************************************************)
(* Model of watermarker.py: add_watermark (validation, scaling, opacity,   *)
(* tiling, single placement, save) and run_watermarker (batch and single   *)
(* file dispatch).                                                         *)
(***************************************************************************)
EXTENDS Integers, Sequences, FiniteSets, TLC

(***************************************************************************)
(* Python float arithmetic.  scale_factor and the products that give       *)
(* new_size are IEEE-754 binary64 values, every operation rounded to the   *)
(* nearest representable value (ties to even).  A float is a record        *)
(* [neg, m, e] of value m * 2^e whose mantissa m is a natural number of    *)
(* exactly MantBits bits (or zero), held as a little-endian sequence of    *)
(* limbs base LimbBase, since a mantissa does not fit a 32-bit integer.    *)
(***************************************************************************)
LimbBits == 15

LimbBase == 32768

MantBits == 53

\* Op(x), with x evaluated once and handed over as a value
Eval(x, Op(_)) == CHOOSE r \in {Op(v) : v \in {x}} : TRUE

\* 2^k for 0 <= k <= LimbBits
Pow2(k) == <<1, 2, 4, 8, 16, 32, 64, 128, 256, 512, 1024, 2048, 4096, 8192,
             16384, 32768>>[k + 1]

RECURSIVE IntBitLen(_)
IntBitLen(n) == IF n = 0 THEN 0 ELSE 1 + IntBitLen(n \div 2)

RECURSIVE TopLimb(_, _)
TopLimb(a, i) == IF i = 0 THEN 0 ELSE IF a[i] # 0 THEN i ELSE TopLimb(a, i - 1)

\* a without its leading zero limbs
BNorm(a) == SubSeq(a, 1, TopLimb(a, Len(a)))

RECURSIVE BFromInt(_)
BFromInt(n) == IF n = 0 THEN <<>> ELSE <<n % LimbBase>> \o BFromInt(n \div LimbBase)

RECURSIVE BToInt(_)
BToInt(a) == IF a = <<>> THEN 0 ELSE a[1] + LimbBase * BToInt(Tail(a))

BLen(a) == IF a = <<>> THEN 0 ELSE LimbBits * (Len(a) - 1) + IntBitLen(a[Len(a)])

BLimb(a, i) == IF i <= Len(a) THEN a[i] ELSE 0

BBit(a, i) == (BLimb(a, (i \div LimbBits) + 1) \div Pow2(i % LimbBits)) % 2

RECURSIVE BMulC(_, _, _)
BMulC(a, n, carry) ==
    IF a = <<>> THEN BFromInt(carry)
    ELSE Eval(a[1] * n + carry,
              LAMBDA t : <<t % LimbBase>> \o BMulC(Tail(a), n, t \div LimbBase))

\* a * n for 0 <= n <= LimbBase
BMulS(a, n) == Eval(BMulC(a, n, 0), BNorm)

RECURSIVE BDivC(_, _)
BDivC(a, n) ==
    IF a = <<>> THEN [q |-> <<>>, r |-> 0]
    ELSE Eval(BDivC(Tail(a), n),
              LAMBDA hi : [q |-> <<(hi.r * LimbBase + a[1]) \div n>> \o hi.q,
                           r |-> (hi.r * LimbBase + a[1]) % n])

\* quotient and remainder of a by n, 0 < n <= LimbBase
BDivS(a, n) == Eval(BDivC(a, n), LAMBDA d : [q |-> BNorm(d.q), r |-> d.r])

BShl(a, k) ==
    IF a = <<>> THEN <<>>
    ELSE [i \in 1..(k \div LimbBits) |-> 0] \o BMulS(a, Pow2(k % LimbBits))

BShr(a, k) ==
    IF Len(a) <= k \div LimbBits THEN <<>>
    ELSE BDivS(SubSeq(a, (k \div LimbBits) + 1, Len(a)), Pow2(k % LimbBits)).q

\* the k low bits of a are all zero
BLowZero(a, k) ==
    /\ \A i \in 1..(k \div LimbBits) : BLimb(a, i) = 0
    /\ BLimb(a, (k \div LimbBits) + 1) % Pow2(k % LimbBits) = 0

\* a + 1
RECURSIVE BInc(_)
BInc(a) ==
    IF a = <<>> THEN <<1>>
    ELSE IF a[1] + 1 < LimbBase THEN <<a[1] + 1>> \o Tail(a)
    ELSE <<0>> \o BInc(Tail(a))

FZero == [neg |-> FALSE, m |-> <<>>, e |-> 0]

\* n, of more than MantBits bits, cut to its MantBits top bits rounds up:
\* the first bit cut is set, and a later one is, or sticky, or the last kept
RoundsUp(n, sticky) ==
    LET d == BLen(n) - MantBits
    IN  BBit(n, d - 1) = 1 /\ (sticky \/ ~BLowZero(n, d - 1) \/ BBit(n, d) = 1)

\* round to nearest, ties to even: the float nearest to (n + f) * 2^e,
\* where 0 <= f < 1 and sticky says f > 0
FRound(neg, n, e, sticky) ==
    IF n = <<>> THEN FZero
    ELSE IF BLen(n) <= MantBits
    THEN [neg |-> neg, m |-> BShl(n, MantBits - BLen(n)),
          e |-> e - (MantBits - BLen(n))]
    ELSE Eval(BShr(n, BLen(n) - MantBits),
              LAMBDA keep :
                 Eval(IF RoundsUp(n, sticky) THEN BInc(keep) ELSE keep,
                      LAMBDA m1 :
                         IF BLen(m1) > MantBits
                         THEN [neg |-> neg, m |-> BShr(m1, 1),
                               e |-> e + (BLen(n) - MantBits) + 1]
                         ELSE [neg |-> neg, m |-> m1,
                               e |-> e + (BLen(n) - MantBits)]))

Abs(n) == IF n < 0 THEN 0 - n ELSE n

\* the float of the quotient num / den of two integers (den > 0): a float
\* literal such as 0.1, or the true division 1/10
FFromRatio(num, den) ==
    Eval(BShl(BFromInt(Abs(num)), 6 * LimbBits),
         LAMBDA s : Eval(BDivS(s, den),
                         LAMBDA d : FRound(num < 0, d.q, 0 - 6 * LimbBits, d.r # 0)))

\* float * int and int * float, 0 <= n <= LimbBase
FMulInt(f0, n) ==
    Eval(f0, LAMBDA f : Eval(BMulS(f.m, n),
                             LAMBDA p : FRound(f.neg, p, f.e, FALSE)))

\* float / int, 0 < n <= LimbBase
FDivInt(f0, n) ==
    Eval(f0, LAMBDA f :
       Eval(BShl(f.m, 2 * LimbBits), LAMBDA s :
          Eval(BDivS(s, n),
               LAMBDA d : FRound(f.neg, d.q, f.e - 2 * LimbBits, d.r # 0))))

\* 4 * a + b on four limbs, a below 2^(4 * LimbBits) / 4 and 0 <= b < 4
Quad(a, b) ==
    LET a1 == a[1] * 4 + b
        a2 == a[2] * 4 + (a1 \div LimbBase)
        a3 == a[3] * 4 + (a2 \div LimbBase)
    IN  <<a1 % LimbBase, a2 % LimbBase, a3 % LimbBase, a[4] * 4 + (a3 \div LimbBase)>>

\* 2 * a + b on four limbs, 0 <= b < 2
Twice(a, b) ==
    LET a1 == a[1] * 2 + b
        a2 == a[2] * 2 + (a1 \div LimbBase)
        a3 == a[3] * 2 + (a2 \div LimbBase)
    IN  <<a1 % LimbBase, a2 % LimbBase, a3 % LimbBase, a[4] * 2 + (a3 \div LimbBase)>>

\* r >= c on four limbs
Geq4(r, c) ==
    IF r[4] # c[4] THEN r[4] > c[4]
    ELSE IF r[3] # c[3] THEN r[3] > c[3]
    ELSE IF r[2] # c[2] THEN r[2] > c[2]
    ELSE r[1] >= c[1]

\* r - c on four limbs, r >= c
Sub4(r, c) ==
    LET d1 == r[1] - c[1]
        d2 == r[2] - c[2] - (IF d1 < 0 THEN 1 ELSE 0)
        d3 == r[3] - c[3] - (IF d2 < 0 THEN 1 ELSE 0)
    IN  <<d1 % LimbBase, d2 % LimbBase, d3 % LimbBase,
          r[4] - c[4] - (IF d3 < 0 THEN 1 ELSE 0)>>

\* one step of the digit-by-digit square root: st.root and st.rem are four
\* limbs; two bits b of the radicand are brought down and the next bit of
\* the root is decided
SqrtStep(st, b) ==
    Eval(<<Quad(st.rem, b), Quad(st.root, 1)>>,
         LAMBDA rc : IF Geq4(rc[1], rc[2])
                     THEN [root |-> Twice(st.root, 1), rem |-> Sub4(rc[1], rc[2])]
                     ELSE [root |-> Twice(st.root, 0), rem |-> rc[1]])

\* the bit of m * 2^k at position j
ShiftedBit(m, k, j) == IF j >= k THEN BBit(m, j - k) ELSE 0

\* the steps for the bit pairs hi, hi - 1, ..., lo of m * 2^k, the upper
\* half of them first
RECURSIVE SqrtRun(_, _, _, _, _)
SqrtRun(m, k, hi, lo, st) ==
    IF hi = lo
    THEN SqrtStep(st, 2 * ShiftedBit(m, k, 2 * hi + 1) + ShiftedBit(m, k, 2 * hi))
    ELSE Eval(SqrtRun(m, k, hi, (hi + lo) \div 2 + 1, st),
              LAMBDA nx : SqrtRun(m, k, (hi + lo) \div 2, lo, nx))

\* floor of the square root of m * 2^k (m of MantBits bits) and its
\* remainder, bit pair by bit pair from the top
BSqrt(m, k) ==
    SqrtRun(m, k, (MantBits + k) \div 2, 0,
            [root |-> <<0, 0, 0, 0>>, rem |-> <<0, 0, 0, 0>>])

\* math.sqrt of a non-negative float: the radicand m * 2^k has an even
\* exponent f.e - k and enough bits for a root of more than MantBits bits
FSqrt(f0) ==
    Eval(f0, LAMBDA f :
       IF f.m = <<>> THEN FZero
       ELSE Eval(BSqrt(f.m, IF f.e % 2 = 0 THEN MantBits + 5 ELSE MantBits + 4),
                 LAMBDA s : FRound(FALSE, BNorm(s.root),
                                   (f.e - (IF f.e % 2 = 0 THEN MantBits + 5
                                           ELSE MantBits + 4)) \div 2,
                                   BNorm(s.rem) # <<>>)))

\* int(f): truncation toward zero of a float below 2^MantBits
FTrunc(f0) ==
    Eval(f0, LAMBDA f :
       IF f.neg
       THEN 0 - (IF f.e >= 0 THEN BToInt(BShl(f.m, f.e)) ELSE BToInt(BShr(f.m, 0 - f.e)))
       ELSE IF f.e >= 0 THEN BToInt(BShl(f.m, f.e)) ELSE BToInt(BShr(f.m, 0 - f.e)))

\* f <= 0, f > 1, f < 1 of the validation and the opacity test
FLeqZero(f0) == Eval(f0, LAMBDA f : f.m = <<>> \/ f.neg)

FIsOne(f0) ==
    Eval(f0, LAMBDA f : ~f.neg /\ f.e = 1 - MantBits
                        /\ f.m = BShl(<<1>>, MantBits - 1))

FGtOne(f0) ==
    Eval(f0, LAMBDA f : ~FLeqZero(f) /\ ~FIsOne(f) /\ f.e + MantBits > 0)

FLtOne(f0) == Eval(f0, LAMBDA f : ~FGtOne(f) /\ ~FIsOne(f))


(***************************************************************************)
(* Bounds of the model and the inputs drawn from them.                     *)
(***************************************************************************)
\* canvas width and height range over 1..MaxDim
MaxDim == 4

\* margins and tile paddings range over 0..MaxPad
MaxPad == 2

\* a batch directory holds at most MaxFiles entries
MaxFiles == 3

\* row_index and col_index are unbounded Python integers of which the code
\* reads the parity only; past MaxIndex they are folded back by 2
MaxIndex == MaxDim + 2

CanvasSizes == (1..MaxDim) \X (1..MaxDim)

\* watermark images: small ones, and wide ones whose width does not divide
\* the scaled canvas width exactly in floating point
MarkSizes == {<<1, 1>>, <<2, 1>>, <<3, 3>>, <<49, 49>>}

\* alpha samples of the watermark image
AlphaSamples == {255}

\* float arguments are written as the ratio num / den of their literal
Ratio(n, d) == [num |-> n, den |-> d]

F(r) == FFromRatio(r.num, r.den)

ValidProportions == {Ratio(1, 10), Ratio(1, 2), Ratio(1, 1)}

BadProportions == {Ratio(0, 1), Ratio(-1, 2), Ratio(3, 2)}

BadOpacities == {Ratio(-1, 2), Ratio(3, 2)}

\* a position argument is a str or a tuple
Str(s) == [kind |-> "str", name |-> s, xy |-> <<>>]

Tup(t) == [kind |-> "tuple", name |-> "", xy |-> t]

Anchors == {"UPPER_LEFT", "UPPER_RIGHT", "LOWER_LEFT", "LOWER_RIGHT", "MIDDLE"}

\* position=(0,0) of the signature of add_watermark
DefaultPosition == Tup(<<0, 0>>)

\* a path is the sequence of the tokens of its file name: "." and the runs
\* of other characters between the dots
Path(stem, ext) == <<stem, ".", ext>>

InputPath == Path("a", "png")

WatermarkPath == Path("wm", "png")

OutputPath == Path("a_watermarked", "png")

(***************************************************************************)
(* State.                                                                  *)
(***************************************************************************)
VARIABLES
    args,            \* the arguments of the current call of add_watermark
    omitted,         \* TRUE when the caller passed no position
    pc,              \* where add_watermark stands
    error,           \* message of the ValueError raised, or of the error printed
    original_size,   \* original.size = (width, height)
    watermark_size,  \* watermark_img.size
    wm_alpha,        \* an alpha sample of watermark_img
    new_size,
    x_step, y_step, x, y, row_index, col_index,
    stamps,          \* offsets at which watermark_img was pasted on watermark_layer
    cells,           \* number of grid cells the tiling loop visited
    pos,
    disk,            \* per existing path: whether it decodes, and its image size
    opened,          \* paths decoded by Image.open
    written,         \* sequence of the output paths saved, in order
    cli,             \* options of the run command
    listing,         \* file names of the input directory (or the single input file)
    image_files,     \* files of the batch not yet iterated
    outcome,         \* the files iterated, in order, each "saved" or "failed"
    run_pc,          \* where run_watermarker stands
    report           \* lines printed by run_watermarker at its end

opVars == <<pc, error, original_size, watermark_size, wm_alpha, new_size,
            x_step, y_step, x, y, row_index, col_index, stamps, cells, pos>>

tileVars == <<x_step, y_step, x, y, row_index, col_index, cells>>

runVars == <<cli, listing, image_files, outcome, run_pc, report>>

vars == <<args, omitted, disk, opVars, opened, written, runVars>>

(***************************************************************************)
(* add_watermark: input validation (lines 26-61).                          *)
(***************************************************************************)
\* str.lower() on the tokens of the paths of the model
Lower(tok) ==
    CASE tok = "PNG" -> "png"
      [] tok = "JPG" -> "jpg"
      [] tok = "JPEG" -> "jpeg"
      [] tok = "TXT" -> "txt"
      [] OTHER -> tok

\* path.lower().endswith(('.png', '.jpg', '.jpeg'))
EndsWithImageExt(path) ==
    /\ Len(path) >= 2
    /\ path[Len(path) - 1] = "."
    /\ Lower(path[Len(path)]) \in {"png", "jpg", "jpeg"}

\* the validation without its test of the opacity
ValidationErrorNoOpacity(a) ==
    IF FLeqZero(F(a.proportion)) THEN "Proportion must be greater than 0"
    ELSE IF FGtOne(F(a.proportion)) THEN "Proportion must be less than or equal to 1"
    ELSE IF a.input_path = <<>> \/ a.watermark_path = <<>> \/ a.output_dir = <<>>
         THEN "Image paths cannot be empty"
    ELSE IF ~EndsWithImageExt(a.input_path) \/ ~EndsWithImageExt(a.watermark_path)
         THEN "Image paths must end with .png, .jpg, or .jpeg"
    ELSE IF a.margin < 0 THEN "Margin must be a non-negative integer"
    ELSE IF a.position.kind = "str" /\ a.position.name \notin Anchors
         THEN "Position must be a tuple of (x, y) coordinates"
    ELSE IF a.position.kind = "tuple" /\ Len(a.position.xy) # 2
         THEN "Position must be a tuple of (x, y) coordinates"
    ELSE IF a.position.kind = "tuple"
            /\ (~(a.position.xy[1] >= 0) \/ ~(a.position.xy[2] >= 0))
         THEN "Position coordinates must be non-negative"
    ELSE IF a.type_of_rescaling \notin {"LINEAR", "AREA"}
         THEN "Type of rescaling must be 'LINEAR' or 'AREA'"
    ELSE IF a.mode \notin {"SINGLE", "TILE"} THEN "Mode must be 'SINGLE' or 'TILE'"
    ELSE IF a.tile_padding < 0 THEN "Tile padding must be a non-negative integer"
    ELSE ""

\* the message of the ValueError add_watermark raises for arguments a, or
\* "" when the validation passes
ValidationError(a) ==
    IF FLeqZero(F(a.proportion)) THEN "Proportion must be greater than 0"
    ELSE IF FGtOne(F(a.proportion)) THEN "Proportion must be less than or equal to 1"
    ELSE IF a.input_path = <<>> \/ a.watermark_path = <<>> \/ a.output_dir = <<>>
         THEN "Image paths cannot be empty"
    ELSE IF ~EndsWithImageExt(a.input_path) \/ ~EndsWithImageExt(a.watermark_path)
         THEN "Image paths must end with .png, .jpg, or .jpeg"
    ELSE IF a.margin < 0 THEN "Margin must be a non-negative integer"
    ELSE IF a.position.kind = "str" /\ a.position.name \notin Anchors
         THEN "Position must be a tuple of (x, y) coordinates"
    ELSE IF a.position.kind = "tuple" /\ Len(a.position.xy) # 2
         THEN "Position must be a tuple of (x, y) coordinates"
    ELSE IF a.position.kind = "tuple"
            /\ (~(a.position.xy[1] >= 0) \/ ~(a.position.xy[2] >= 0))
         THEN "Position coordinates must be non-negative"
    ELSE IF a.type_of_rescaling \notin {"LINEAR", "AREA"}
         THEN "Type of rescaling must be 'LINEAR' or 'AREA'"
    ELSE IF a.mode \notin {"SINGLE", "TILE"} THEN "Mode must be 'SINGLE' or 'TILE'"
    ELSE IF F(a.opacity).neg \/ FGtOne(F(a.opacity))
         THEN "Opacity must be a float between 0.0 and 1.0"
    ELSE IF a.tile_padding < 0 THEN "Tile padding must be a non-negative integer"
    ELSE ""

(***************************************************************************)
(* add_watermark: the try block (lines 63-163).                            *)
(***************************************************************************)
Validate ==
    /\ pc = "validate"
    /\ error' = ValidationError(args)
    /\ pc' = IF ValidationError(args) # "" THEN "raised" ELSE "open"
    /\ UNCHANGED <<args, omitted, disk, original_size, watermark_size, wm_alpha,
                   new_size, tileVars, stamps, pos, opened, written, runVars>>

\* lines 160-163: both except clauses print the error and fall off the end
\* of add_watermark, which returns None
ExceptPcPropagates == "raised"

ExceptPc == "returned"

\* the error printed when an Image.open of lines 65-68 or the check of
\* lines 77-78 fails, or "" when both images are decoded
OpenError(input_path, watermark_path) ==
    IF input_path \notin DOMAIN disk THEN "Error opening images"
    ELSE IF ~disk[input_path].ok THEN "An unexpected error occurred"
    ELSE IF watermark_path \notin DOMAIN disk THEN "Error opening images"
    ELSE IF ~disk[watermark_path].ok THEN "An unexpected error occurred"
    ELSE IF disk[watermark_path].size[1] = 0 \/ disk[watermark_path].size[2] = 0
         THEN "An unexpected error occurred"
    ELSE ""

\* the images decoded before the try block is left
Decoded(input_path, watermark_path) ==
    IF input_path \notin DOMAIN disk \/ ~disk[input_path].ok THEN {}
    ELSE IF watermark_path \notin DOMAIN disk \/ ~disk[watermark_path].ok
         THEN {input_path}
    ELSE {input_path, watermark_path}

\* lines 63-78: both images are decoded, or the exception is caught and
\* printed (lines 160-163) and add_watermark returns
OpenImages ==
    /\ pc = "open"
    /\ opened' = opened \cup Decoded(args.input_path, args.watermark_path)
    /\ error' = OpenError(args.input_path, args.watermark_path)
    /\ IF OpenError(args.input_path, args.watermark_path) = ""
       THEN /\ original_size' = disk[args.input_path].size
            /\ watermark_size' = disk[args.watermark_path].size
            /\ \E a \in AlphaSamples : wm_alpha' = a
            /\ pc' = "scale"
       ELSE /\ pc' = ExceptPc
            /\ UNCHANGED <<original_size, watermark_size, wm_alpha>>
    /\ UNCHANGED <<args, omitted, disk, new_size, tileVars, stamps, pos,
                   written, runVars>>

\* lines 80-89
scale_factor(width, height, watermark_width, watermark_height, proportion, type) ==
    IF type = "LINEAR"
    THEN FDivInt(FMulInt(proportion, width), watermark_width)
    ELSE FSqrt(FDivInt(FMulInt(proportion, height * width),
                       watermark_height * watermark_width))

\* line 91
NewSize(width, height, watermark_width, watermark_height, proportion, type) ==
    Eval(scale_factor(width, height, watermark_width, watermark_height,
                      proportion, type),
         LAMBDA s : <<FTrunc(FMulInt(s, watermark_width)),
                      FTrunc(FMulInt(s, watermark_height))>>)

\* lines 93-98: the size of watermark_img after the resize, or its own size
\* when the resize is skipped
Resized(size, ns) == IF ns[1] > 0 /\ ns[2] > 0 THEN ns ELSE size

Rescale ==
    /\ pc = "scale"
    /\ \E ns \in {NewSize(original_size[1], original_size[2],
                            watermark_size[1], watermark_size[2],
                            F(args.proportion), args.type_of_rescaling)} :
          /\ new_size' = ns
          /\ watermark_size' = Resized(watermark_size, ns)
    /\ pc' = "opacity"
    /\ UNCHANGED <<args, omitted, disk, error, original_size, wm_alpha, tileVars,
                   stamps, pos, opened, written, runVars>>

\* line 105: lambda i: int(i * opacity)
Modulate(i, opacity) == FTrunc(FMulInt(opacity, i))

\* lines 100-111: opacity, then the transparent layer
ApplyOpacity ==
    /\ pc = "opacity"
    /\ \E opacity \in {F(args.opacity)} :
          wm_alpha' = IF FLtOne(opacity) THEN Modulate(wm_alpha, opacity)
                      ELSE wm_alpha
    /\ stamps' = {}
    /\ pc' = IF args.mode = "TILE" THEN "tile" ELSE "single"
    /\ UNCHANGED <<args, omitted, disk, error, original_size, watermark_size,
                   new_size, tileVars, pos, opened, written, runVars>>

\* lines 116-117
XStep(ns, tile_padding) == ns[1] + tile_padding

YStep(ns, tile_padding) == ns[2] + tile_padding

\* lines 113-121
TileBegin ==
    /\ pc = "tile"
    /\ x_step' = XStep(new_size, args.tile_padding)
    /\ y_step' = YStep(new_size, args.tile_padding)
    /\ row_index' = 0
    /\ y' = 0
    /\ cells' = 0
    /\ pc' = "rows"
    /\ UNCHANGED <<args, omitted, disk, error, original_size, watermark_size,
                   wm_alpha, new_size, x, col_index, stamps, pos, opened,
                   written, runVars>>

\* line 122: while y < height, and lines 123-124
TileRow ==
    /\ pc = "rows"
    /\ IF y < original_size[2]
       THEN col_index' = 0 /\ x' = 0 /\ pc' = "cols"
       ELSE pc' = "save" /\ UNCHANGED <<x, col_index>>
    /\ UNCHANGED <<args, omitted, disk, error, original_size, watermark_size,
                   wm_alpha, new_size, x_step, y_step, y, row_index, cells,
                   stamps, pos, opened, written, runVars>>

\* i += 1 on an index of which only the parity is read
NextIndex(i) == IF i < MaxIndex THEN i + 1 ELSE i - 1

\* the parity test taken on the column alone
FilledByColumn(r, c) == c % 2 = 0

\* line 126
Filled(r, c) == (r + c) % 2 = 0

\* lines 125-132: one turn of the inner loop, or its exit and the end of
\* the turn of the outer loop
TileCol ==
    /\ pc = "cols"
    /\ IF x < original_size[1]
       THEN /\ stamps' = IF Filled(row_index, col_index)
                         THEN stamps \cup {<<x, y>>} ELSE stamps
            /\ x' = x + x_step
            /\ col_index' = NextIndex(col_index)
            /\ cells' = IF cells < MaxIndex * MaxIndex THEN cells + 1 ELSE cells
            /\ UNCHANGED <<y, row_index, pc>>
       ELSE /\ y' = y + y_step
            /\ row_index' = NextIndex(row_index)
            /\ pc' = "rows"
            /\ UNCHANGED <<x, col_index, cells, stamps>>
    /\ UNCHANGED <<args, omitted, disk, error, original_size, watermark_size,
                   wm_alpha, new_size, x_step, y_step, pos, opened, written,
                   runVars>>

\* the offset clamped to the canvas
PositionClamped(position, margin0, width, height, wm_width, wm_height) ==
    LET margin == IF margin0 >= 0 THEN margin0 ELSE 0
        Clamp(n) == IF n < 0 THEN 0 ELSE n
    IN  IF position = Str("UPPER_LEFT") THEN <<margin, margin>>
        ELSE IF position = Str("UPPER_RIGHT")
             THEN <<Clamp(width - wm_width - margin), margin>>
        ELSE IF position = Str("LOWER_LEFT")
             THEN <<margin, Clamp(height - wm_height - margin)>>
        ELSE IF position = Str("MIDDLE")
             THEN <<Clamp((width - wm_width) \div 2), Clamp((height - wm_height) \div 2)>>
        ELSE IF position.kind = "tuple" THEN position.xy
        ELSE <<Clamp(width - wm_width - margin), Clamp(height - wm_height - margin)>>

\* lines 135-143
Position(position, margin0, width, height, wm_width, wm_height) ==
    LET margin == IF margin0 >= 0 THEN margin0 ELSE 0
    IN  IF position = Str("UPPER_LEFT") THEN <<margin, margin>>
        ELSE IF position = Str("UPPER_RIGHT") THEN <<width - wm_width - margin, margin>>
        ELSE IF position = Str("LOWER_LEFT") THEN <<margin, height - wm_height - margin>>
        ELSE IF position = Str("MIDDLE")
             THEN <<(width - wm_width) \div 2, (height - wm_height) \div 2>>
        ELSE IF position.kind = "tuple" THEN position.xy
        ELSE <<width - wm_width - margin, height - wm_height - margin>>

\* lines 133-147
PlaceSingle ==
    /\ pc = "single"
    /\ pos' = Position(args.position, args.margin, original_size[1], original_size[2],
                       watermark_size[1], watermark_size[2])
    /\ stamps' = {Position(args.position, args.margin, original_size[1],
                           original_size[2], watermark_size[1], watermark_size[2])}
    /\ pc' = "save"
    /\ UNCHANGED <<args, omitted, disk, error, original_size, watermark_size,
                   wm_alpha, new_size, tileVars, opened, written, runVars>>

\* lines 149-158: the composite is saved, or the exception of save is
\* caught and printed (lines 162-163)
Save ==
    /\ pc = "save"
    /\ \/ written' = Append(written, args.output_dir) /\ error' = error
                                                      /\ pc' = "returned"
       \/ written' = written /\ error' = "An unexpected error occurred"
                             /\ pc' = ExceptPc
    /\ UNCHANGED <<args, omitted, disk, original_size, watermark_size, wm_alpha,
                   new_size, tileVars, stamps, pos, opened, runVars>>

AddWatermark ==
    \/ Validate
    \/ OpenImages
    \/ Rescale
    \/ ApplyOpacity
    \/ TileBegin
    \/ TileRow
    \/ TileCol
    \/ PlaceSingle
    \/ Save

(***************************************************************************)
(* run_watermarker (lines 171-246).                                        *)
(***************************************************************************)
Max(S) == CHOOSE m \in S : \A n \in S : n <= m

\* str.rfind('.') on the tokens of a name, 0 when there is no dot
LastDot(name) == Max({0} \cup {i \in 1..Len(name) : name[i] = "."})

\* PurePath.suffix: the last dot must be neither the first nor the last
\* character of the name
Suffix(name) ==
    IF 1 < LastDot(name) /\ LastDot(name) < Len(name)
    THEN SubSeq(name, LastDot(name), Len(name)) ELSE <<>>

\* PurePath.stem
Stem(name) ==
    IF 1 < LastDot(name) /\ LastDot(name) < Len(name)
    THEN SubSeq(name, 1, LastDot(name) - 1) ELSE name

\* f.suffix.lower() in valid_extensions (lines 193, 197, 221)
HasValidExtension(name) ==
    /\ Suffix(name) # <<>>
    /\ Lower(Suffix(name)[2]) \in {"png", "jpg", "jpeg"}

\* lines 205-206 and 226-227
OutputFilename(name) == Stem(name) \o <<"_watermarked", ".", "png">>

\* the arguments of the calls of lines 208-219 and 229-240
CallArgs(name) ==
    [input_path |-> name, watermark_path |-> cli.watermark_path,
     output_dir |-> OutputFilename(name), margin |-> cli.margin,
     position |-> cli.position, opacity |-> cli.opacity,
     proportion |-> cli.proportion, type_of_rescaling |-> cli.rescaling_type,
     mode |-> cli.mode, tile_padding |-> cli.tile_padding]

\* lines 186-201 and 220-227, 242-244: up to the loop or to the single call
RunStart ==
    /\ run_pc = "start"
    /\ IF cli.watermark_path \notin DOMAIN disk
       THEN run_pc' = "aborted" /\ UNCHANGED <<image_files, args, pc>>
       ELSE IF listing.kind = "dir"
       THEN /\ image_files' = {f \in listing.names : HasValidExtension(f)}
            /\ run_pc' = IF {f \in listing.names : HasValidExtension(f)} = {}
                         THEN "exited" ELSE "loop"
            /\ UNCHANGED <<args, pc>>
       ELSE IF listing.kind = "file"
       THEN IF ~HasValidExtension(cli.input_path)
            THEN run_pc' = "aborted" /\ UNCHANGED <<image_files, args, pc>>
            ELSE /\ args' = CallArgs(cli.input_path)
                 /\ pc' = "validate"
                 /\ run_pc' = "call"
                 /\ UNCHANGED image_files
       ELSE run_pc' = "aborted" /\ UNCHANGED <<image_files, args, pc>>
    /\ UNCHANGED <<omitted, disk, error, original_size, watermark_size, wm_alpha,
                   new_size, tileVars, stamps, pos, opened, written, cli,
                   listing, outcome, report>>

\* lines 204-219: the next file of the progress bar, in the order of iterdir
RunNextFile ==
    /\ run_pc = "loop"
    /\ \E f \in image_files :
          /\ args' = CallArgs(f)
          /\ image_files' = image_files \ {f}
    /\ pc' = "validate"
    /\ error' = ""
    /\ run_pc' = "call"
    /\ UNCHANGED <<omitted, disk, original_size, watermark_size, wm_alpha,
                   new_size, tileVars, stamps, pos, opened, written, cli,
                   listing, outcome, report>>

\* the locals of add_watermark before its first statement
Locals ==
    /\ original_size = <<0, 0>>
    /\ watermark_size = <<0, 0>>
    /\ wm_alpha = 0
    /\ new_size = <<0, 0>>
    /\ x_step = 0 /\ y_step = 0 /\ x = 0 /\ y = 0
    /\ row_index = 0 /\ col_index = 0
    /\ stamps = {}
    /\ cells = 0
    /\ pos = <<0, 0>>

\* add_watermark returns to the loop, or to line 246 after the single call,
\* and its locals are gone
CallReturns ==
    /\ run_pc = "call"
    /\ pc = "returned"
    /\ outcome' = Append(outcome, [file |-> args.input_path,
                                    result |-> IF error = "" THEN "saved" ELSE "failed"])
    /\ run_pc' = "loop"
    /\ pc' = "idle"
    /\ original_size' = <<0, 0>>
    /\ watermark_size' = <<0, 0>>
    /\ wm_alpha' = 0
    /\ new_size' = <<0, 0>>
    /\ x_step' = 0 /\ y_step' = 0 /\ x' = 0 /\ y' = 0
    /\ row_index' = 0 /\ col_index' = 0
    /\ stamps' = {}
    /\ cells' = 0
    /\ pos' = <<0, 0>>
    /\ UNCHANGED <<args, omitted, disk, error, opened, written, cli, listing,
                   image_files, report>>

\* the ValueError of the validation is not caught by run_watermarker
CallRaises ==
    /\ run_pc = "call"
    /\ pc = "raised"
    /\ run_pc' = "aborted"
    /\ pc' = "idle"
    /\ UNCHANGED <<args, omitted, disk, error, original_size, watermark_size,
                   wm_alpha, new_size, tileVars, stamps, pos, opened, written,
                   cli, listing, image_files, outcome, report>>

\* line 246
RunFinish ==
    /\ run_pc = "loop"
    /\ image_files = {}
    /\ report' = "Process successfully finished!"
    /\ run_pc' = "finished"
    /\ UNCHANGED <<args, omitted, disk, opVars, opened, written, cli, listing,
                   image_files, outcome>>

RunWatermarker ==
    \/ RunStart
    \/ RunNextFile
    \/ CallReturns
    \/ CallRaises
    \/ RunFinish

(***************************************************************************)
(* A direct call of add_watermark.                                         *)
(***************************************************************************)
\* the defaults of the signature (line 11); margin has none
BaseArgs ==
    [input_path |-> InputPath, watermark_path |-> WatermarkPath,
     output_dir |-> OutputPath, margin |-> 0, position |-> DefaultPosition,
     opacity |-> Ratio(1, 1), proportion |-> Ratio(1, 10),
     type_of_rescaling |-> "LINEAR", mode |-> "SINGLE", tile_padding |-> 10]

GivenPositions == {Str(a) : a \in Anchors} \cup {Tup(<<2, 1>>)}

BadPositions == {Str("CENTER"), Tup(<<1>>), Tup(<<0 - 1, 0>>)}

\* a call is the arguments bound to the parameters and whether position
\* was left to its default
SingleCalls ==
    {[args |-> [BaseArgs EXCEPT !.margin = m, !.position = q,
                                !.proportion = Ratio(1, 2)],
      omitted |-> FALSE] :
        m \in 0..MaxPad, q \in GivenPositions}
    \cup
    {[args |-> [BaseArgs EXCEPT !.margin = m], omitted |-> TRUE] : m \in 0..MaxPad}
    \cup
    {[args |-> [BaseArgs EXCEPT !.position = Str("LOWER_RIGHT"), !.proportion = p,
                                !.type_of_rescaling = t],
      omitted |-> FALSE] :
        p \in ValidProportions, t \in {"LINEAR", "AREA"}}

TileCalls ==
    {[args |-> [BaseArgs EXCEPT !.mode = "TILE", !.tile_padding = d,
                                !.opacity = IF t = "LINEAR" THEN Ratio(1, 2)
                                            ELSE Ratio(1, 1),
                                !.proportion = p, !.type_of_rescaling = t],
      omitted |-> TRUE] :
        d \in 0..MaxPad, p \in ValidProportions, t \in {"LINEAR", "AREA"}}

\* calls that break one constraint of the validation
BadCalls ==
    {[args |-> a, omitted |-> FALSE] :
        a \in {[BaseArgs EXCEPT !.proportion = p] : p \in BadProportions}
              \cup {[BaseArgs EXCEPT !.position = q] : q \in BadPositions}
              \cup {[BaseArgs EXCEPT !.opacity = o] : o \in BadOpacities}
              \cup {[BaseArgs EXCEPT !.margin = 0 - 1],
                    [BaseArgs EXCEPT !.tile_padding = 0 - 1],
                    [BaseArgs EXCEPT !.type_of_rescaling = "CUBIC"],
                    [BaseArgs EXCEPT !.mode = "GRID"],
                    [BaseArgs EXCEPT !.input_path = Path("a", "txt")],
                    [BaseArgs EXCEPT !.watermark_path = <<"wm">>],
                    [BaseArgs EXCEPT !.input_path = <<>>]}}

Image(size) == [ok |-> TRUE, size |-> size]

Corrupt == [ok |-> FALSE, size |-> <<0, 0>>]

\* what a direct call finds on disk: both images, a corrupt input, or no
\* input at all
DirectDisks ==
    {[p \in {InputPath, WatermarkPath} |->
         IF p = InputPath THEN Image(c) ELSE Image(w)] :
        c \in CanvasSizes, w \in MarkSizes}
    \cup {[p \in {InputPath, WatermarkPath} |-> IF p = InputPath THEN Corrupt ELSE Image(w)] :
            w \in {<<1, 1>>}}
    \cup {[p \in {WatermarkPath} |-> Image(w)] : w \in {<<1, 1>>}}

NoCli ==
    [input_path |-> <<>>, watermark_path |-> <<>>, mode |-> "", position |-> Str(""),
     proportion |-> Ratio(0, 1), margin |-> 0, tile_padding |-> 0,
     rescaling_type |-> "", opacity |-> Ratio(0, 1)]

OpInit ==
    /\ error = ""
    /\ Locals
    /\ opened = {}
    /\ written = <<>>

\* line 11: the caller binds the parameters, the defaults for those it omits
Call ==
    /\ pc = "idle"
    /\ run_pc = "direct"
    /\ \E c \in SingleCalls \cup TileCalls \cup BadCalls :
          args' = c.args /\ omitted' = c.omitted
    /\ pc' = "validate"
    /\ UNCHANGED <<disk, error, original_size, watermark_size, wm_alpha, new_size,
                   tileVars, stamps, pos, opened, written, runVars>>

Init ==
    /\ args = BaseArgs
    /\ omitted = FALSE
    /\ disk \in DirectDisks
    /\ pc = "idle"
    /\ OpInit
    /\ cli = NoCli
    /\ listing = [kind |-> "none", names |-> {}]
    /\ image_files = {}
    /\ outcome = <<>>
    /\ run_pc = "direct"
    /\ report = ""

Next == Call \/ AddWatermark

Spec == Init /\ [][Next]_vars

\* lines 113-158: the interpreter runs the tiling and the save to their end, a
\* step of them that can be taken is taken
TileStage == TileBegin \/ TileRow \/ TileCol \/ Save

FairSpec == Spec /\ WF_vars(TileStage)

(***************************************************************************)
(* An invocation of the run command.                                       *)
(***************************************************************************)
NamePool == {Path("a", "png"), Path("a", "jpg"), Path("b", "PNG"), Path("n", "txt")}

InputDir == <<"photos">>

Listings ==
    {[kind |-> "dir", names |-> S] :
        S \in {T \in SUBSET NamePool : Cardinality(T) <= MaxFiles}}
    \cup {[kind |-> "file", names |-> {n}] : n \in NamePool}
    \cup {[kind |-> "missing", names |-> {}]}

\* canvases of a batch: one too small for the watermark, one that holds it
BatchSizes == {<<1, 1>>, <<MaxDim, 2>>}

\* what an invocation finds on disk: the watermark at its path wm and every
\* listed name, an image or not; or the listed names and no watermark
BatchDisks(names, wm) ==
    LET images == {n \in names : HasValidExtension(n)}
    IN  {[p \in names \cup {wm} |->
             IF p = wm THEN Image(<<2, 1>>)
             ELSE IF p \in images THEN e[p] ELSE Corrupt] :
            e \in [images -> {Corrupt} \cup {Image(c) : c \in BatchSizes}]}
        \cup {[n \in names |-> Corrupt]}

\* the defaults of the options (lines 174-181)
BaseCli ==
    [input_path |-> InputDir, watermark_path |-> WatermarkPath, mode |-> "SINGLE",
     position |-> Str("LOWER_RIGHT"), proportion |-> Ratio(1, 10), margin |-> 20,
     tile_padding |-> 50, rescaling_type |-> "LINEAR", opacity |-> Ratio(1, 2)]

ValidClis ==
    {[BaseCli EXCEPT !.margin = 1, !.proportion = Ratio(1, 2)],
     [BaseCli EXCEPT !.mode = "TILE", !.tile_padding = 0, !.proportion = Ratio(1, 2)],
     [BaseCli EXCEPT !.mode = "TILE", !.tile_padding = 1, !.proportion = Ratio(1, 2),
                     !.rescaling_type = "AREA"]}

BadClis ==
    {[BaseCli EXCEPT !.proportion = p] : p \in BadProportions}
    \cup {[BaseCli EXCEPT !.opacity = o] : o \in BadOpacities}
    \cup {[BaseCli EXCEPT !.position = Str("CENTER")],
          [BaseCli EXCEPT !.margin = 0 - 1],
          [BaseCli EXCEPT !.tile_padding = 0 - 1],
          [BaseCli EXCEPT !.rescaling_type = "CUBIC"],
          [BaseCli EXCEPT !.mode = "GRID"],
          [BaseCli EXCEPT !.watermark_path = <<"wm">>],
          [BaseCli EXCEPT !.mode = "GRID", !.opacity = Ratio(3, 2)]}

RunInit ==
    /\ listing \in Listings
    /\ \E c \in ValidClis \cup BadClis :
          cli = [c EXCEPT !.input_path =
                    IF listing.kind = "file" THEN CHOOSE n \in listing.names : TRUE
                    ELSE InputDir]
    /\ disk \in BatchDisks(listing.names, cli.watermark_path)
    /\ args = CallArgs(cli.input_path)
    /\ omitted = FALSE
    /\ pc = "idle"
    /\ OpInit
    /\ image_files = {}
    /\ outcome = <<>>
    /\ run_pc = "start"
    /\ report = ""

RunNext == RunWatermarker \/ AddWatermark

RunSpec == RunInit /\ [][RunNext]_vars

(***************************************************************************)
(* Properties.                                                             *)
(***************************************************************************)
Range(q) == {q[i] : i \in DOMAIN q}

\* the constraints on the configuration, on the arguments as written
ViolatesConstraint(a) ==
    \/ a.proportion.num <= 0
    \/ a.proportion.num > a.proportion.den
    \/ a.margin < 0
    \/ a.tile_padding < 0
    \/ a.opacity.num < 0
    \/ a.opacity.num > a.opacity.den
    \/ a.type_of_rescaling \notin {"LINEAR", "AREA"}
    \/ a.mode \notin {"SINGLE", "TILE"}
    \/ ~ \/ a.position.kind = "str" /\ a.position.name \in Anchors
         \/ /\ a.position.kind = "tuple"
            /\ Len(a.position.xy) = 2
            /\ a.position.xy[1] >= 0
            /\ a.position.xy[2] >= 0
    \/ \E p \in {a.input_path, a.watermark_path} :
          \/ Len(p) < 2
          \/ p[Len(p) - 1] # "."
          \/ p[Len(p)] \notin {"png", "jpg", "jpeg", "PNG", "JPG", "JPEG"}

ImagesOf(l) == {n \in l.names : HasValidExtension(n)}

C3_ReportCountsFailures ==
    (/\ listing.kind = "dir"
     /\ run_pc = "finished"
     /\ \E i \in DOMAIN outcome : outcome[i].result = "failed")
        => report # "Process successfully finished!"

\* C4: the input files of a batch write distinct output files: no output
\* path is written twice, so no operation overwrites the output of another
C4_DistinctOutputs ==
    \A i, j \in DOMAIN written : i # j => written[i] # written[j]

\* C5: the call returns in TILE mode whatever the sizes, the tile step of 0
\* included
C5_TilingTerminates == (pc = "tile") ~> (pc = "returned")

\* n / d rounded up, for n >= 0 and d > 0
CeilDiv(n, d) == (n + d - 1) \div d

\* C6: in TILE mode with positive steps the offsets stamped are exactly the
\* cells (r, c) of the grid over the canvas with r + c even, and the loop
\* visits ceil(H / y_step) * ceil(W / x_step) cells
C6_Checkerboard ==
    (args.mode = "TILE" /\ pc \in {"save", "returned"} /\ x_step > 0 /\ y_step > 0) =>
        /\ stamps = {<<c * x_step, r * y_step>> :
                        <<r, c>> \in {rc \in (0..original_size[2]) \X (0..original_size[1]) :
                                        /\ rc[1] * y_step < original_size[2]
                                        /\ rc[2] * x_step < original_size[1]
                                        /\ (rc[1] + rc[2]) % 2 = 0}}
        /\ cells = CeilDiv(original_size[2], y_step) * CeilDiv(original_size[1], x_step)

C6_Witness ==
    /\ args.mode = "TILE"
    /\ pc = "returned"
    /\ x_step > 0 /\ y_step > 0
    /\ {<<0, 0>>, <<2 * x_step, 0>>, <<x_step, y_step>>} \subseteq stamps
    /\ <<x_step, 0>> \notin stamps
    /\ cells >= 6

\* the offset the placement table gives for position q and margin m
TableOffset(q, m, W, H, Mw, Mh) ==
    CASE q = Str("UPPER_LEFT")  -> <<m, m>>
      [] q = Str("UPPER_RIGHT") -> <<W - Mw - m, m>>
      [] q = Str("LOWER_LEFT")  -> <<m, H - Mh - m>>
      [] q = Str("LOWER_RIGHT") -> <<W - Mw - m, H - Mh - m>>
      [] q = Str("MIDDLE")      -> <<(W - Mw) \div 2, (H - Mh) \div 2>>
      [] OTHER                  -> q.xy

\* C7: in SINGLE mode the mark is stamped once, at the offset of the
\* placement table for the canvas size, the size of the mark after the
\* scaling stage and the margin, negative offsets included
C7_SingleOffset ==
    /\ (args.mode = "SINGLE" /\ stamps # {}) =>
          /\ pos = TableOffset(args.position, args.margin, original_size[1],
                               original_size[2], watermark_size[1], watermark_size[2])
          /\ stamps = {pos}
    /\ Position(Str("LOWER_RIGHT"), 20, 1000, 500, 100, 50) = <<880, 430>>

C7_Witness ==
    /\ args.mode = "SINGLE"
    /\ pc = "returned"
    /\ args.position = Str("LOWER_RIGHT")
    /\ args.margin > 0
    /\ stamps = {pos}
    /\ pos[1] < 0
    /\ pos[2] >= 0

\* the position is neither one of the five anchors nor a pair
Unrecognized(q) ==
    \/ q.kind = "str" /\ q.name \notin Anchors
    \/ q.kind = "tuple" /\ Len(q.xy) # 2

\* C8: in SINGLE mode a position left out by the caller, or one that is not
\* recognized, places the mark at the LOWER_RIGHT offset
C8_DefaultLowerRight ==
    (args.mode = "SINGLE" /\ (omitted \/ Unrecognized(args.position))) =>
        /\ pc # "raised"
        /\ stamps # {} =>
              pos = <<original_size[1] - watermark_size[1] - args.margin,
                      original_size[2] - watermark_size[2] - args.margin>>

\* the largest k with k * k * d <= n, for n >= 0 and d > 0
FloorSqrt(n, d) == Max({k \in 0..n : k * k * d <= n})

\* the size (floor(Mw * s), floor(Mh * s)) for the scale factor s of the
\* type of rescaling and the proportion pn / pd, or (Mw, Mh) when one of the
\* two is not positive
ScaledSize(W, H, Mw, Mh, pn, pd, type) ==
    LET w == IF type = "LINEAR" THEN (W * pn) \div pd
             ELSE FloorSqrt(Mw * H * W * pn, Mh * pd)
        h == IF type = "LINEAR" THEN (Mh * W * pn) \div (Mw * pd)
             ELSE FloorSqrt(Mh * H * W * pn, Mw * pd)
    IN  IF w > 0 /\ h > 0 THEN <<w, h>> ELSE <<Mw, Mh>>

\* C9: after the scaling stage the mark has the size (floor(Mw * s),
\* floor(Mh * s)), s = W * p / Mw (LINEAR) or sqrt(H * W * p / (Mh * Mw))
\* (AREA), when both are positive, and its own size otherwise
C9_ScaledSize ==
    (original_size # <<0, 0>> /\ pc # "scale") =>
        watermark_size = ScaledSize(original_size[1], original_size[2],
                                    disk[args.watermark_path].size[1],
                                    disk[args.watermark_path].size[2],
                                    args.proportion.num, args.proportion.den,
                                    args.type_of_rescaling)

\* C10: in TILE mode the steps of the grid are the size of the mark that is
\* stamped plus the padding, also when the resize was skipped
C10_StepsFollowStampedSize ==
    (args.mode = "TILE" /\ pc \in {"rows", "cols", "save"}) =>
        /\ x_step = watermark_size[1] + args.tile_padding
        /\ y_step = watermark_size[2] + args.tile_padding

====
